---- MODULE Spec2Model ----
(***************************************************************************)
(* Model of src/runPublicBenchmark.ts: the command-line benchmark runner.  *)
(* main() parses the flags, optionally shuts down the running devboxes,    *)
(* then either starts a benchmark run and drives its pending scenarios in  *)
(* batches of at most CONCURRENT_RUNS concurrent tasks (runNextBatch), or  *)
(* runs one scenario.  Each task is attemptScenarioRunWithGoldenPatch,     *)
(* a chain of awaited calls to the Runloop API.  Every awaited call is a   *)
(* suspension point: the model has one step per call returning or          *)
(* rejecting, and the synchronous code that follows is part of that step.  *)
(***************************************************************************)
EXTENDS Integers, Sequences, FiniteSets, TLC

\* ---------------------------------------------------------------- bounds
MaxN == 3            \* most scenarios a benchmark run lists as pending
MaxK == 2            \* ceilings explored: 1, MaxK and CONCURRENT_RUNS
MaxDevboxes == 2     \* the platform lists no devbox or this many as running
MaxFailures == 1     \* most API calls of scenario tasks that reject in a run

\* ------------------------------------------------------- program constants
CONCURRENT_RUNS == 50

VARIABLES
    argv,              \* parsed flags
    maxConcurrency,    \* the ceiling the batch loop runs with
    pc,                \* where main() is suspended
    listCalls,         \* number of devboxes.list calls issued
    devboxList,        \* devboxList of main: ids of the devboxes listed
    shutdowns,         \* devbox ids for which devboxes.shutdown was issued
    startRunCalls,     \* number of benchmarks.startRun calls issued
    pendingScenarios,  \* benchmarkRun.pending_scenarios
    idx,               \* cursor of runNextBatch (items dispatched so far)
    batch,             \* the promises of the batch awaited by Promise.all
    batchNo,           \* number of non-empty batches launched so far
    results,           \* results of main
    task,              \* one record per attemptScenarioRunWithGoldenPatch call
    settled,           \* task indexes in the order their promises settled
    summary            \* what main printed at the end

vars == <<argv, maxConcurrency, pc, listCalls, devboxList, shutdowns,
          startRunCalls, pendingScenarios, idx, batch, batchNo, results,
          task, settled, summary>>

\* ------------------------------------------------------------ small helpers
Min(a, b) == IF a < b THEN a ELSE b

Range(s) == {s[i] : i \in 1..Len(s)}

ScenarioIds == 1..MaxN

\* What benchmarks.startRun can return as pending_scenarios, and
\* scenarios.listPublic as matches: n distinct scenario ids, in an order that
\* is not the order of the ids.
PendingChoices == {[p \in 1..n |-> n + 1 - p] : n \in 0..MaxN}

\* ------------------------------------------------------------------ values
\* An optional field is a sequence: <<>> is undefined, <<v>> is the value v.
Undefined == <<>>
Some(v) == <<v>>

\* The run view scenarios.runs.scoreAndAwait returns for a scenario.  Scores
\* are in tenths: 10 is 1.0.  The reference patch of a scenario scores the same
\* whenever it is run: of three scenarios one scores 1.0, one scores 0.5 and
\* the run view of one has no scoring_contract_result.
RunViewOf(scenarioId) ==
    CASE scenarioId % 3 = 1 -> [score |-> Some(10)]
      [] scenarioId % 3 = 2 -> [score |-> Some(5)]
      [] OTHER              -> [score |-> Undefined]

\* What an awaited API call can reject with.
ThrownValues ==
    {[kind |-> "Error",   message |-> "timeout"],   \* new Error("timeout")
     [kind |-> "Error",   message |-> ""],          \* new Error()
     [kind |-> "string",  message |-> "boom"],      \* throw "boom"
     [kind |-> "nullish", message |-> ""]}          \* throw undefined / null

\* e.message of line 234: a property read, which throws on undefined and null
HasMessageProperty(e) == e.kind = "Error"
ReadMessageThrows(e) == e.kind = "nullish"

\* String(e) of line 234
String(e) ==
    IF e.kind = "Error"
    THEN (IF e.message = "" THEN "Error" ELSE "Error: " \o e.message)
    ELSE e.message

\* e.message || String(e)
ErrorText(e) ==
    IF HasMessageProperty(e) /\ e.message # "" THEN e.message ELSE String(e)

\* ---------------------------------------------------------- result records
\* the object the catch block of attemptScenarioRunWithGoldenPatch returns
FailureResult(scenarioId, e) ==
    [scenario |-> [id |-> scenarioId, name |-> ""],
     run      |-> Undefined,
     error    |-> Some(ErrorText(e))]

\* the object the try block returns: { scenario, run }
SuccessResult(scenarioId, run) ==
    [scenario |-> [id |-> scenarioId, name |-> "scenario"],
     run      |-> Some(run),
     error    |-> Undefined]

Truthy(opt) == opt # Undefined /\ opt[1] # ""

runCompleted(result) == result.run # Undefined /\ ~Truthy(result.error)

score(result) ==
    IF result.run = Undefined THEN Undefined ELSE result.run[1].score


\* ------------------------------------------------------------ scenario tasks
\* The chain of awaited calls of one attemptScenarioRunWithGoldenPatch call.
\* pc names the call the task is suspended on; "resolved" and "rejected" are
\* the two ways its promise settles.  batch is the number of the batch that
\* launched it (0 for the single scenario of line 186).
NewTask(scenarioId, b) ==
    [scenarioId |-> scenarioId,
     batch      |-> b,
     pc         |-> "retrieve",
     calls      |-> <<"retrieve">>,
     threw      |-> Undefined,
     run        |-> Undefined,
     result     |-> Undefined]

Settled(t) == t.pc \in {"resolved", "rejected"}

InFlight == {i \in 1..Len(task) : ~Settled(task[i])}

Failed == {i \in 1..Len(task) : task[i].threw # Undefined}

\* the task moves on to await the next call of the chain
Await(t, call) == [t EXCEPT !.pc = call, !.calls = Append(@, call)]

\* return { scenario, run }
Resolve(t) ==
    [t EXCEPT !.pc = "resolved",
              !.result = Some(SuccessResult(t.scenarioId, t.run[1]))]

\* (mutant) the run is never completed
TeardownNever(keepDevbox) == FALSE

\* (mutant) the keep flag is ignored
TeardownAlways(keepDevbox) == TRUE

\* if (!keepDevbox) of line 280
TeardownWanted(keepDevbox) == ~keepDevbox

\* main() is suspended on a scenario task in these two places
RunningTasks == pc \in {"batch", "single"}

taskUnchanged == <<argv, maxConcurrency, pc, listCalls, devboxList, shutdowns,
                   startRunCalls, pendingScenarios, idx, batch, batchNo,
                   results, summary>>

\* scenarios.retrieve returns: runScenarioWithReferenceSolution starts the run
RetrieveReturns(i) ==
    /\ RunningTasks
    /\ task[i].pc = "retrieve"
    /\ task' = [task EXCEPT ![i] = Await(@, "startRunAndAwaitEnvReady")]
    /\ UNCHANGED <<settled, taskUnchanged>>

\* scenarios.startRunAndAwaitEnvReady returns: the patch file is written
StartRunAndAwaitEnvReadyReturns(i) ==
    /\ RunningTasks
    /\ task[i].pc = "startRunAndAwaitEnvReady"
    /\ task' = [task EXCEPT ![i] = Await(@, "writeFileContents")]
    /\ UNCHANGED <<settled, taskUnchanged>>

\* devboxes.writeFileContents returns: the patch command is executed
WriteFileContentsReturns(i) ==
    /\ RunningTasks
    /\ task[i].pc = "writeFileContents"
    /\ task' = [task EXCEPT ![i] = Await(@, "executeSync")]
    /\ UNCHANGED <<settled, taskUnchanged>>

\* devboxes.executeSync returns: scoring is requested
ExecuteSyncReturns(i) ==
    /\ RunningTasks
    /\ task[i].pc = "executeSync"
    /\ task' = [task EXCEPT ![i] = Await(@, "scoreAndAwait")]
    /\ UNCHANGED <<settled, taskUnchanged>>

\* scenarios.runs.scoreAndAwait returns a run view: the run is completed
\* unless the devbox is kept, in which case the task returns at once
ScoreAndAwaitReturns(i) ==
    /\ RunningTasks
    /\ task[i].pc = "scoreAndAwait"
    /\ LET scored == [task[i] EXCEPT !.run = Some(RunViewOf(task[i].scenarioId))]
       IN  IF TeardownWanted(argv.keepDevbox)
           THEN /\ task' = [task EXCEPT ![i] = Await(scored, "complete")]
                /\ UNCHANGED settled
           ELSE /\ task' = [task EXCEPT ![i] = Resolve(scored)]
                /\ settled' = Append(settled, i)
    /\ UNCHANGED taskUnchanged

\* scenarios.runs.complete returns: the task returns { scenario, run }
CompleteReturns(i) ==
    /\ RunningTasks
    /\ task[i].pc = "complete"
    /\ task' = [task EXCEPT ![i] = Resolve(@)]
    /\ settled' = Append(settled, i)
    /\ UNCHANGED taskUnchanged

\* The call a task awaits rejects with e: the catch block of lines 224-236
\* builds the failure record.  Reading e.message of undefined or null throws
\* inside the catch block, so the task's promise rejects; Promise.all (or the
\* await of line 186) rejects with it, main() rejects and line 293 exits.
CallRejects(i, e) ==
    /\ RunningTasks
    /\ ~Settled(task[i])
    /\ Cardinality(Failed) < MaxFailures
    /\ settled' = Append(settled, i)
    /\ IF ReadMessageThrows(e)
       THEN /\ task' = [task EXCEPT ![i].pc = "rejected", ![i].threw = Some(e)]
            /\ pc' = "exit1"
       ELSE /\ task' = [task EXCEPT
                 ![i].pc = "resolved",
                 ![i].threw = Some(e),
                 ![i].result = Some(FailureResult(task[i].scenarioId, e))]
            /\ UNCHANGED pc
    /\ UNCHANGED <<argv, maxConcurrency, listCalls, devboxList, shutdowns,
                   startRunCalls, pendingScenarios, idx, batch, batchNo,
                   results, summary>>


\* ---------------------------------------------------------------- main()
\* what yargs leaves in argv for an option of type "string": undefined when
\* the option is not on the command line, else its value, which may be ""
OptionValues(v) == {Undefined, Some(""), Some(v)}

Flags == [benchmarkId  : OptionValues("B"),
          scenarioId   : OptionValues("s1"),
          scenarioName : OptionValues("n"),
          keepDevbox   : BOOLEAN,
          forceClear   : BOOLEAN]

\* the scenario a non-empty --scenario-id names
CliScenarioId == 1

\* the option is on the command line, whatever its value
IsGiven(opt) == opt # Undefined

\* .check() of lines 63-74: one of the three identifiers must have a truthy
\* value
CheckPasses(a) ==
    Truthy(a.benchmarkId) \/ Truthy(a.scenarioId) \/ Truthy(a.scenarioName)

\* (mutant) the .conflicts() line is missing
ConflictsNever(a) == TRUE

\* .conflicts("benchmark-id", ["scenario-id", "scenario-name"]) of line 75:
\* yargs fails when both options are on the command line, whatever their values
ConflictsPass(a) ==
    ~(IsGiven(a.benchmarkId)
         /\ (IsGiven(a.scenarioId) \/ IsGiven(a.scenarioName)))

ArgsAccepted(a) == CheckPasses(a) /\ ConflictsPass(a)

\* (mutant) the loop leaves the ceiling out of its condition
RECURSIVE BatchLoopUnbounded(_, _, _, _)
BatchLoopUnbounded(i, ix, n, K) ==
    IF ix < n
    THEN <<ix + 1>> \o BatchLoopUnbounded(i + 1, ix + 1, n, K)
    ELSE <<>>

\* (mutant) the loop counter is compared with <=
RECURSIVE BatchLoopOffByOne(_, _, _, _)
BatchLoopOffByOne(i, ix, n, K) ==
    IF i <= K /\ ix < n
    THEN <<ix + 1>> \o BatchLoopOffByOne(i + 1, ix + 1, n, K)
    ELSE <<>>

\* the for loop of lines 117-130: the input positions (from 1) it dispatches
\* when entered with cursor ix, i being the loop counter
RECURSIVE BatchLoop(_, _, _, _)
BatchLoop(i, ix, n, K) ==
    IF i < K /\ ix < n
    THEN <<ix + 1>> \o BatchLoop(i + 1, ix + 1, n, K)
    ELSE <<>>

\* (mutant) the last promise of the batch is not awaited
AllResolvedButLast(b) == \A k \in 1..Len(b) - 1 : task[b[k]].pc = "resolved"

\* (mutant) Promise.any: one resolved promise is enough
AnyResolved(b) == \E k \in 1..Len(b) : task[b[k]].pc = "resolved"

\* (mutant) the results of the batch in the order its promises settled
BatchResultsInCompletionOrder(b) ==
    LET InBatch(i) == i \in Range(b)
        order == SelectSeq(settled, InBatch)
    IN  [k \in 1..Len(order) |-> task[order[k]].result[1]]

\* (mutant) the values of the batch from its last promise to its first
RECURSIVE BatchResultsReversed(_)
BatchResultsReversed(b) ==
    IF b = <<>> THEN <<>>
    ELSE BatchResultsReversed(Tail(b)) \o task[Head(b)].result

\* (mutant) the results of the batch without its last promise
BatchResultsButLast(b) == [k \in 1..Len(b) - 1 |-> task[b[k]].result[1]]

\* Promise.all(batch) resolves once every promise of the batch has resolved
AllResolved(b) == \A k \in 1..Len(b) : task[b[k]].pc = "resolved"

\* the values Promise.all resolves to: the value of each promise of the
\* batch, in the batch's order
RECURSIVE BatchResults(_)
BatchResults(b) ==
    IF b = <<>> THEN <<>> ELSE task[Head(b)].result \o BatchResults(Tail(b))

\* lines 140-162: the counts main prints
Successes(rs) == SelectSeq(rs, runCompleted)
NotCompleted(r) == ~runCompleted(r)
Failures(rs) == SelectSeq(rs, NotCompleted)
Passing(r) == score(r) = Some(10)
\* (mutant) a success without a score is not counted as failing
NotPassingScored(r) == score(r) # Undefined /\ score(r) # Some(10)

NotPassing(r) == score(r) # Some(10)
Summary(rs) ==
    [successes         |-> Len(Successes(rs)),
     failures          |-> Len(Failures(rs)),
     successAndPassing |-> Len(SelectSeq(Successes(rs), Passing)),
     successAndFailing |-> Len(SelectSeq(Successes(rs), NotPassing))]

NoSummary ==
    [successes |-> 0, failures |-> 0,
     successAndPassing |-> 0, successAndFailing |-> 0]

\* runNextBatch entered with cursor ix and the results rs collected so far:
\* it launches the next batch of ps and main() stays suspended on Promise.all,
\* or, the batch being empty, it returns, main() prints the summary and ends.
runNextBatch(ps, ix, rs) ==
    LET positions == BatchLoop(0, ix, Len(ps), maxConcurrency)
        launched  == [k \in 1..Len(positions) |->
                         NewTask(ps[positions[k]], batchNo + 1)]
    IN  /\ results' = rs
        /\ idx' = ix + Len(positions)
        /\ task' = task \o launched
        /\ batch' = [k \in 1..Len(positions) |-> Len(task) + k]
        /\ IF Len(positions) > 0
           THEN /\ pc' = "batch"
                /\ batchNo' = batchNo + 1
                /\ UNCHANGED summary
           ELSE /\ pc' = "done"
                /\ summary' = Summary(rs)
                /\ UNCHANGED batchNo

\* lines 100-201 up to the first await: what main() does once the optional
\* shutdown of the running devboxes is over
Dispatch ==
    IF Truthy(argv.benchmarkId)
    THEN /\ pc' = "startRun"
         /\ startRunCalls' = startRunCalls + 1
         /\ UNCHANGED task
    ELSE /\ UNCHANGED startRunCalls
         /\ IF ~Truthy(argv.scenarioId) /\ Truthy(argv.scenarioName)
            THEN /\ pc' = "listPublic"
                 /\ UNCHANGED task
            ELSE IF ~Truthy(argv.scenarioId)
            THEN /\ pc' = "exit1"
                 /\ UNCHANGED task
            ELSE /\ pc' = "single"
                 /\ task' = Append(task, NewTask(CliScenarioId, 0))

\* yargs rejects the command line: it reports the error and exits non-zero
ParseRejects ==
    /\ pc = "parse"
    /\ ~ArgsAccepted(argv)
    /\ pc' = "exit1"
    /\ UNCHANGED <<argv, maxConcurrency, listCalls, devboxList, shutdowns,
                   startRunCalls, pendingScenarios, idx, batch, batchNo,
                   results, task, settled, summary>>

\* yargs accepts the command line: lines 79-98 up to the first await
ParseAccepts ==
    /\ pc = "parse"
    /\ ArgsAccepted(argv)
    /\ IF argv.forceClear
       THEN /\ pc' = "list"
            /\ listCalls' = listCalls + 1
            /\ UNCHANGED <<startRunCalls, task>>
       ELSE /\ Dispatch
            /\ UNCHANGED listCalls
    /\ UNCHANGED <<argv, maxConcurrency, devboxList, shutdowns,
                   pendingScenarios, idx, batch, batchNo, results, settled,
                   summary>>

\* (mutant) the loop stops one devbox short
MoreToShutDownButLast(done, listed) == done + 1 < Len(listed)

\* the for loop of lines 94-96 has a next devbox after done of them
MoreToShutDown(done, listed) == done < Len(listed)

\* devboxes.list returns the running devboxes: the first one is shut down,
\* or, there being none, main() goes on
ListReturns(devboxes) ==
    /\ pc = "list"
    /\ devboxList' = devboxes
    /\ IF MoreToShutDown(0, devboxes)
       THEN /\ pc' = "shutdown"
            /\ shutdowns' = <<devboxes[1]>>
            /\ UNCHANGED <<startRunCalls, task>>
       ELSE /\ Dispatch
            /\ UNCHANGED shutdowns
    /\ UNCHANGED <<argv, maxConcurrency, listCalls, pendingScenarios, idx,
                   batch, batchNo, results, settled, summary>>

\* devboxes.shutdown returns: the next devbox is shut down, or main() goes on
ShutdownReturns ==
    /\ pc = "shutdown"
    /\ IF MoreToShutDown(Len(shutdowns), devboxList)
       THEN /\ shutdowns' = Append(shutdowns, devboxList[Len(shutdowns) + 1])
            /\ UNCHANGED <<pc, startRunCalls, task>>
       ELSE /\ Dispatch
            /\ UNCHANGED shutdowns
    /\ UNCHANGED <<argv, maxConcurrency, listCalls, devboxList,
                   pendingScenarios, idx, batch, batchNo, results, settled,
                   summary>>

\* benchmarks.startRun returns the benchmark run: lines 107-137 up to the
\* first await, the first batch is launched
StartRunReturns(pending) ==
    /\ pc = "startRun"
    /\ pendingScenarios' = pending
    /\ runNextBatch(pending, 0, <<>>)
    /\ UNCHANGED <<argv, maxConcurrency, listCalls, devboxList, shutdowns,
                   startRunCalls, settled>>

\* Promise.all(batch) resolves: lines 133-134, the results of the batch are
\* pushed and runNextBatch is entered again
BatchSettled ==
    /\ pc = "batch"
    /\ AllResolved(batch)
    /\ runNextBatch(pendingScenarios, idx, results \o BatchResults(batch))
    /\ UNCHANGED <<argv, maxConcurrency, listCalls, devboxList, shutdowns,
                   startRunCalls, pendingScenarios, settled>>

\* scenarios.listPublic returns the scenarios of that name: lines 171-191,
\* the first one is run, or, there being none, main() throws
ListPublicReturns(scenarioArr) ==
    /\ pc = "listPublic"
    /\ IF Len(scenarioArr) = 0
       THEN /\ pc' = "exit1"
            /\ UNCHANGED task
       ELSE /\ pc' = "single"
            /\ task' = Append(task, NewTask(scenarioArr[1], 0))
    /\ UNCHANGED <<argv, maxConcurrency, listCalls, devboxList, shutdowns,
                   startRunCalls, pendingScenarios, idx, batch, batchNo,
                   results, settled, summary>>

\* the await of line 186 resolves: lines 192-200 print the outcome
SingleSettled ==
    /\ pc = "single"
    /\ task[1].pc = "resolved"
    /\ pc' = "done"
    /\ UNCHANGED <<argv, maxConcurrency, listCalls, devboxList, shutdowns,
                   startRunCalls, pendingScenarios, idx, batch, batchNo,
                   results, task, settled, summary>>

\* A call main() itself awaits (devboxes.list, devboxes.shutdown,
\* benchmarks.startRun, scenarios.listPublic) rejects: nothing catches it
\* before lines 291-294, which exit non-zero.
MainCallRejects ==
    /\ pc \in {"list", "shutdown", "startRun", "listPublic"}
    /\ pc' = "exit1"
    /\ UNCHANGED <<argv, maxConcurrency, listCalls, devboxList, shutdowns,
                   startRunCalls, pendingScenarios, idx, batch, batchNo,
                   results, task, settled, summary>>

\* ------------------------------------------------------------ specification
Ceilings == {1, MaxK, CONCURRENT_RUNS}

DevboxChoices == {<<>>, [k \in 1..MaxDevboxes |-> k]}

Init ==
    /\ argv \in Flags
    /\ maxConcurrency \in Ceilings
    /\ pc = "parse"
    /\ listCalls = 0
    /\ devboxList = <<>>
    /\ shutdowns = <<>>
    /\ startRunCalls = 0
    /\ pendingScenarios = <<>>
    /\ idx = 0
    /\ batch = <<>>
    /\ batchNo = 0
    /\ results = <<>>
    /\ task = <<>>
    /\ settled = <<>>
    /\ summary = NoSummary

Next ==
    \/ ParseRejects
    \/ ParseAccepts
    \/ \E devboxes \in DevboxChoices : ListReturns(devboxes)
    \/ ShutdownReturns
    \/ \E pending \in PendingChoices : StartRunReturns(pending)
    \/ BatchSettled
    \/ \E scenarioArr \in PendingChoices : ListPublicReturns(scenarioArr)
    \/ SingleSettled
    \/ MainCallRejects
    \/ \E i \in 1..Len(task) : RetrieveReturns(i)
    \/ \E i \in 1..Len(task) : StartRunAndAwaitEnvReadyReturns(i)
    \/ \E i \in 1..Len(task) : WriteFileContentsReturns(i)
    \/ \E i \in 1..Len(task) : ExecuteSyncReturns(i)
    \/ \E i \in 1..Len(task) : ScoreAndAwaitReturns(i)
    \/ \E i \in 1..Len(task) : CompleteReturns(i)
    \/ \E i \in 1..Len(task) : \E e \in ThrownValues : CallRejects(i, e)

Spec == Init /\ [][Next]_vars

\* the call task i awaits returns or rejects
TaskStep(i) ==
    /\ i <= Len(task)
    /\ \/ RetrieveReturns(i)
       \/ StartRunAndAwaitEnvReadyReturns(i)
       \/ WriteFileContentsReturns(i)
       \/ ExecuteSyncReturns(i)
       \/ ScoreAndAwaitReturns(i)
       \/ CompleteReturns(i)
       \/ \E e \in ThrownValues : CallRejects(i, e)

\* Every call a task awaits comes back, and the event loop runs the
\* continuation of a settled Promise.all or await.
FairSpec ==
    /\ Spec
    /\ \A i \in 1..MaxN : WF_vars(TaskStep(i))
    /\ WF_vars(BatchSettled)
    /\ WF_vars(SingleSettled)

\* ------------------------------------------------------------------ claims
N == Len(pendingScenarios)

\* the benchmark run has finished: runNextBatch returned and main() ended
Finished == Truthy(argv.benchmarkId) /\ pc = "done"

\* the results that carry the scenario id of the item at input position p
OutcomesOf(p) ==
    {j \in 1..Len(results) : results[j].scenario.id = pendingScenarios[p]}

\* C1: once the benchmark run has finished, results holds exactly N outcomes
\* and every item of pending_scenarios has exactly one outcome in it.
C1_OneOutcomePerItem ==
    Finished =>
        /\ Len(results) = N
        /\ \A p \in 1..N : Cardinality(OutcomesOf(p)) = 1

\* a finished run of MaxN items in several batches, one of which failed
C1_Witness ==
    /\ Finished
    /\ N = MaxN
    /\ batchNo >= 2
    /\ \E j \in 1..Len(results) : ~runCompleted(results[j])
    /\ \E j \in 1..Len(results) : runCompleted(results[j])

\* C2: at every instant of a benchmark run the number of tasks launched and
\* not yet settled is at most min(K, N).
C2_InFlightBound ==
    Truthy(argv.benchmarkId) => Cardinality(InFlight) <= Min(maxConcurrency, N)

\* the ceiling is reached below N, and reached again after a first batch
C2_Witness ==
    /\ Truthy(argv.benchmarkId)
    /\ pc = "batch"
    /\ maxConcurrency < N
    /\ batchNo >= 2
    /\ Cardinality(InFlight) = maxConcurrency

\* C3: no task of a later batch exists while a task of an earlier batch has
\* not produced its outcome.
C3_BatchBarrier ==
    \A i \in 1..Len(task) : \A j \in 1..Len(task) :
        task[i].batch < task[j].batch => task[i].pc = "resolved"

\* a second batch is in flight after a first batch of two tasks, one of which
\* failed and one of which succeeded, the later one settling first
C3_Witness ==
    /\ pc = "batch"
    /\ \E j \in 1..Len(task) : task[j].batch = 2 /\ ~Settled(task[j])
    /\ \E i \in 1..Len(task) : task[i].batch = 1 /\ task[i].threw # Undefined
    /\ Len(settled) >= 2 /\ settled[1] = 2 /\ settled[2] = 1


\* C4: a failing task is caught at the item boundary and does not propagate:
\* whenever a call of a task has rejected, the task's promise has resolved and
\* main() has not been aborted.
C4_FailureIsolation ==
    \A i \in 1..Len(task) :
        task[i].threw # Undefined => task[i].pc = "resolved" /\ pc # "exit1"

\* the message the claim expects a failure to carry: the thrown message, or
\* the string form of the thrown value when it has none
C5_ExpectedMessage(e) ==
    CASE e.kind = "Error" /\ e.message # "" -> e.message
      [] e.kind = "Error"                   -> "Error"
      [] e.kind = "string"                  -> e.message
      [] OTHER                              -> "undefined"

\* C5: whatever value a call of a task rejects with, the task's outcome is a
\* failure record with the item's id and the thrown message, or the string
\* form when there is no message.
C5_FailureCarriesMessage ==
    \A i \in 1..Len(task) :
        task[i].threw # Undefined =>
            /\ task[i].result # Undefined
            /\ task[i].result[1].scenario.id = task[i].scenarioId
            /\ task[i].result[1].run = Undefined
            /\ task[i].result[1].error = Some(C5_ExpectedMessage(task[i].threw[1]))

\* the positions of calls at which the task called the API named call
CallsOf(t, call) == {k \in 1..Len(t.calls) : t.calls[k] = call}

\* C6: scenarios.runs.complete is called for an item exactly when the devbox
\* is not kept and scoring has returned for that item; it is called at most
\* once, after the scoring call, and never for an item one of whose first five
\* steps failed nor when the devbox is kept.
C6_TeardownIffScoredAndNotKept ==
    \A i \in 1..Len(task) :
        LET t == task[i] IN
        /\ Cardinality(CallsOf(t, "complete")) <= 1
        /\ (CallsOf(t, "complete") # {})
              <=> (~argv.keepDevbox /\ t.run # Undefined)
        /\ \A k \in CallsOf(t, "complete") :
              k > 1 /\ t.calls[k - 1] = "scoreAndAwait"
        /\ (t.threw # Undefined /\ t.run = Undefined)
              => CallsOf(t, "complete") = {}

\* one task has completed its run and settled while another, in the same
\* benchmark run, failed after its devbox was provisioned
C6_Witness ==
    /\ ~argv.keepDevbox
    /\ \E i \in 1..Len(task) :
          /\ task[i].pc = "resolved"
          /\ CallsOf(task[i], "complete") # {}
    /\ \E j \in 1..Len(task) :
          /\ task[j].threw # Undefined
          /\ task[j].pc = "resolved"
          /\ CallsOf(task[j], "startRunAndAwaitEnvReady") # {}
          /\ CallsOf(task[j], "complete") = {}

\* the task whose outcome is the result r, and when its promise settled
TaskOf(r) == CHOOSE i \in 1..Len(task) : task[i].scenarioId = r.scenario.id
SettledAt(i) == CHOOSE k \in 1..Len(settled) : settled[k] = i
PositionOf(id) == CHOOSE p \in 1..N : pendingScenarios[p] = id

\* C7 as stated: within each batch the results are in the order in which the
\* tasks completed, and there are N of them.
C7_CompletionOrder ==
    Finished =>
        /\ Len(results) = N
        /\ \A j \in 1..Len(results) : \A k \in 1..Len(results) :
              (j < k /\ task[TaskOf(results[j])].batch
                          = task[TaskOf(results[k])].batch)
                 => SettledAt(TaskOf(results[j])) < SettledAt(TaskOf(results[k]))

\* C7 amended: within each batch the results are in input order, whatever the
\* order in which the tasks completed, and there are N of them.
C7_InputOrderWithinBatch ==
    Finished =>
        /\ Len(results) = N
        /\ \A j \in 1..Len(results) : \A k \in 1..Len(results) :
              (j < k /\ task[TaskOf(results[j])].batch
                          = task[TaskOf(results[k])].batch)
                 => PositionOf(results[j].scenario.id)
                       < PositionOf(results[k].scenario.id)

\* a finished run one of whose batches completed in the reverse of input order
C7_Witness ==
    /\ Finished
    /\ N >= 2
    /\ task[1].batch = task[2].batch
    /\ SettledAt(2) < SettledAt(1)

\* C8: the printed counts partition the results: successes + failures = N,
\* passing + failing = successes, a success is passing exactly when its score
\* is 1.0 and failing with any other score or none.
C8_SummaryPartition ==
    Finished =>
        LET succ == {j \in 1..Len(results) :
                        results[j].run # <<>> /\ results[j].error = <<>>}
            pass == {j \in succ : results[j].run[1].score = <<10>>}
        IN  /\ summary.successes + summary.failures = N
            /\ summary.successAndPassing + summary.successAndFailing
                  = summary.successes
            /\ summary.successes = Cardinality(succ)
            /\ summary.successAndPassing = Cardinality(pass)
            /\ summary.successAndFailing = Cardinality(succ \ pass)

\* a finished run with a failure, a passing success and a success that has no
\* score at all
C8_Witness ==
    /\ Finished
    /\ summary.failures = 1
    /\ summary.successAndPassing = 1
    /\ summary.successAndFailing = 1
    /\ \E j \in 1..Len(results) :
          results[j].run # <<>> /\ results[j].run[1].score = <<>>

\* the chain of calls of a task that went through every step
FullChain(keepDevbox) ==
    <<"retrieve", "startRunAndAwaitEnvReady", "writeFileContents",
      "executeSync", "scoreAndAwait">>
       \o (IF keepDevbox THEN <<>> ELSE <<"complete">>)

\* C9: a task that has ended has an outcome, which is a success exactly when
\* every step returned and the task returned a run, and a failure exactly
\* when a step rejected; a finished run in which nothing rejected counts N
\* successes and no failure.
C9_SuccessIffNoThrow ==
    /\ \A i \in 1..Len(task) :
          Settled(task[i]) =>
             /\ task[i].result # Undefined
             /\ runCompleted(task[i].result[1]) <=>
                   /\ task[i].threw = Undefined
                   /\ task[i].calls = FullChain(argv.keepDevbox)
                   /\ task[i].result[1].run
                         = Some(RunViewOf(task[i].scenarioId))
             /\ ~runCompleted(task[i].result[1]) <=> task[i].threw # Undefined
    /\ (Finished /\ Failed = {}) =>
          summary.successes = N /\ summary.failures = 0

\* main() has got past the optional shutdown of the running devboxes
PastClear ==
    \/ pc \in {"startRun", "batch", "listPublic", "single", "done"}
    \/ startRunCalls > 0
    \/ Len(task) > 0

\* C10: with --force-clear-running-devboxes the listing and a shutdown of
\* every devbox listed have completed before the benchmark run is started or
\* any scenario is looked up; without the flag nothing is listed or shut down.
C10_ClearBeforeRun ==
    /\ (argv.forceClear /\ PastClear) =>
          /\ listCalls = 1
          /\ shutdowns = devboxList
    /\ ~argv.forceClear => listCalls = 0 /\ shutdowns = <<>>

\* a batch is in flight after MaxDevboxes devboxes were shut down
C10_Witness ==
    /\ argv.forceClear
    /\ pc = "batch"
    /\ Len(devboxList) = MaxDevboxes
    /\ shutdowns = devboxList


\* no call to the platform has been issued
NoExternalCall ==
    /\ listCalls = 0
    /\ startRunCalls = 0
    /\ task = <<>>
    /\ pc \notin {"list", "shutdown", "startRun", "listPublic", "batch", "single"}

\* C11: the process exits non-zero for a configuration error, without having
\* started any scenario task, and a failing scenario task, in benchmark mode or
\* in single-scenario mode, never makes the process exit non-zero.
C11_ExitOnlyAtTopLevel ==
    /\ (pc # "parse" /\ ~CheckPasses(argv)) => pc = "exit1" /\ task = <<>>
    /\ pc = "exit1" => Failed = {}

\* the identifier flags that are on the command line, and those of them
\* with a non-empty value
Given(a) ==
    (IF IsGiven(a.benchmarkId) THEN {"benchmark-id"} ELSE {})
       \cup (IF IsGiven(a.scenarioId) THEN {"scenario-id"} ELSE {})
       \cup (IF IsGiven(a.scenarioName) THEN {"scenario-name"} ELSE {})
NonEmpty(a) ==
    (IF Truthy(a.benchmarkId) THEN {"benchmark-id"} ELSE {})
       \cup (IF Truthy(a.scenarioId) THEN {"scenario-id"} ELSE {})
       \cup (IF Truthy(a.scenarioName) THEN {"scenario-name"} ELSE {})

\* C12 as stated: main() gets past the command line only when exactly one of
\* --benchmark-id, --scenario-id, --scenario-name is given, and every other
\* combination ends the process before any external call.
C12_ExactlyOneIdentifier ==
    /\ pc \notin {"parse", "exit1"} => Cardinality(Given(argv)) = 1
    /\ (pc # "parse" /\ Cardinality(Given(argv)) # 1) =>
          pc = "exit1" /\ NoExternalCall

\* the combinations of identifier flags the command line is accepted with,
\* one of them at least having a non-empty value
C12_Accepted ==
    {{"benchmark-id"}, {"scenario-id"}, {"scenario-name"},
     {"scenario-id", "scenario-name"}}

\* C12 amended: --benchmark-id excludes the two others, whatever the values,
\* and one of the three must have a non-empty value; --scenario-id and
\* --scenario-name are accepted together: a non-empty id is run and no lookup
\* by name is made, the name is looked up when the id is empty.  Every other
\* command line ends the process before any external call.
C12_BenchmarkExcludesScenario ==
    /\ pc \notin {"parse", "exit1"} =>
          Given(argv) \in C12_Accepted /\ NonEmpty(argv) # {}
    /\ (pc # "parse" /\ ~(Given(argv) \in C12_Accepted /\ NonEmpty(argv) # {}))
          => pc = "exit1" /\ NoExternalCall
    /\ pc = "startRun" => NonEmpty(argv) = {"benchmark-id"}
    /\ pc = "listPublic" => NonEmpty(argv) = {"scenario-name"}
    /\ pc = "single" => "benchmark-id" \notin Given(argv)
    /\ (Truthy(argv.scenarioId) /\ Len(task) > 0) =>
          task[1].scenarioId = CliScenarioId

\* the scenario of --scenario-id has run to its end although --scenario-name
\* was given too, with a name
C12_Witness ==
    /\ NonEmpty(argv) = {"scenario-id", "scenario-name"}
    /\ pc = "done"
    /\ task[1].pc = "resolved"

\* --scenario-name has been looked up although --scenario-id was given too,
\* with no value
C12_WitnessEmptyId ==
    /\ Given(argv) = {"scenario-id", "scenario-name"}
    /\ NonEmpty(argv) = {"scenario-name"}
    /\ pc = "single"

\* the calls of every task so far are the first calls of the fixed chain, one
\* at a time: the task is suspended on the last call it made, or has settled
InChainOrder(t) ==
    /\ Len(t.calls) <= Len(FullChain(argv.keepDevbox))
    /\ \A k \in 1..Len(t.calls) : t.calls[k] = FullChain(argv.keepDevbox)[k]
    /\ ~Settled(t) => t.pc = t.calls[Len(t.calls)]

\* C13: every task makes its calls in the order retrieve, startRunAndAwaitEnvReady,
\* writeFileContents, executeSync, scoreAndAwait, complete (the last unless
\* the devbox is kept), each after the previous one returned; a task one of
\* whose calls failed makes no further call, and the tasks still in flight
\* beside it go on with their own calls.
C13_StepOrder ==
    \A i \in 1..Len(task) :
        /\ InChainOrder(task[i])
        /\ task[i].threw # Undefined =>
              /\ Settled(task[i])
              /\ \A j \in 1..Len(task) : ~Settled(task[j]) => RunningTasks

\* ceil(n / k)
CeilDiv(n, k) == (n + k - 1) \div k

\* C14: the batches partition the input in order: the j-th batch (from 1) is
\* made of the items at positions (j-1)*K+1 .. min(j*K, N), every item is
\* launched at most once and, when the run has finished, exactly once, in
\* ceil(N/K) batches; an empty input launches nothing and has no result, and
\* a ceiling above N gives one batch.
C14_BatchPartition ==
    Truthy(argv.benchmarkId) =>
        /\ Len(task) = idx /\ idx <= N
        /\ \A p \in 1..Len(task) :
              /\ task[p].scenarioId = pendingScenarios[p]
              /\ task[p].batch = ((p - 1) \div maxConcurrency) + 1
        /\ pc = "batch" =>
              Range(batch) =
                  {p \in 1..N : /\ (batchNo - 1) * maxConcurrency < p
                                /\ p <= Min(batchNo * maxConcurrency, N)}
        /\ Finished =>
              /\ Len(task) = N
              /\ batchNo = CeilDiv(N, maxConcurrency)
              /\ N = 0 => task = <<>> /\ results = <<>>
              /\ (maxConcurrency > N /\ N > 0) => batchNo = 1

\* a finished run of MaxN items under the ceiling MaxK, in several batches,
\* the last one short
C14_Witness ==
    /\ Finished
    /\ N = MaxN
    /\ maxConcurrency = MaxK
    /\ batchNo = CeilDiv(MaxN, MaxK)
    /\ batchNo > 1
    /\ MaxN % MaxK # 0

\* C15: every call of every task coming back, a benchmark run whose batches
\* have started finishes with its N outcomes recorded and its summary
\* printed; launched tasks are never launched again and nothing is launched
\* once the cursor has reached N.
C15_Termination ==
    /\ (pc = "batch") ~> Finished
    /\ [](Finished =>
            /\ Len(results) = N
            /\ idx = N
            /\ summary.successes + summary.failures = N)
    /\ [][pc = "batch" =>
            /\ Len(task') >= Len(task)
            /\ \A i \in 1..Len(task) : task'[i].scenarioId = task[i].scenarioId
            /\ idx = N => Len(task') = Len(task)]_vars

\* C16: at every instant of a benchmark run the recorded outcomes are those of
\* the batches that have wholly completed, a multiple of K or, at the end, N;
\* the cursor is ahead of them by the size of the batch in flight, by nothing
\* when there is none; and the outcome of a task of the batch in flight is
\* not among them, even if the task has completed.
C16_WholeBatches ==
    Truthy(argv.benchmarkId) =>
        /\ Len(results) % maxConcurrency = 0 \/ Len(results) = N
        /\ Len(results) =
              Cardinality({i \in 1..Len(task) : i \notin Range(batch)})
        /\ idx - Len(results) = Len(batch)
        /\ pc = "batch" => Len(batch) > 0
        /\ pc = "done" => batch = <<>> /\ Len(results) = N
        /\ \A i \in Range(batch) : OutcomesOf(i) = {}

\* the first task of a full batch has completed, its sibling has not, and
\* nothing of the batch is recorded
C16_Witness ==
    /\ pc = "batch"
    /\ Len(batch) = MaxK
    /\ MaxK > 1
    /\ task[batch[1]].pc = "resolved"
    /\ ~Settled(task[batch[2]])
    /\ idx = MaxK
    /\ results = <<>>

\* C17: the results of a finished benchmark run are in input order: the
\* outcome at position p is the one the task of the item at input position p
\* returned, whatever the order in which the tasks of a batch completed.
C17_InputOrder ==
    Finished =>
        /\ Len(results) = N
        /\ \A p \in 1..N :
              /\ results[p].scenario.id = pendingScenarios[p]
              /\ Some(results[p]) = task[p].result

\* a finished run whose MaxN tasks ran in one batch and completed from the
\* last to the first
C17_Witness ==
    /\ Finished
    /\ N = MaxN
    /\ batchNo = 1
    /\ settled = [k \in 1..MaxN |-> MaxN + 1 - k]

\* the complete call of task t rejected, the scoring call having returned
TeardownFailed(t) ==
    /\ t.threw # Undefined
    /\ t.calls[Len(t.calls)] = "complete"

\* C18: a task whose complete call rejected after scoring returned has a
\* failure as its outcome, which carries the error of the complete call and
\* no run, hence no score; the outcome of a task is a success only if its
\* complete call returned or the devbox is kept.
C18_TeardownFailureIsFailure ==
    \A i \in 1..Len(task) :
        /\ TeardownFailed(task[i]) =>
              /\ task[i].run # Undefined
              /\ task[i].result # Undefined
              /\ ~runCompleted(task[i].result[1])
              /\ task[i].result[1].error = Some(ErrorText(task[i].threw[1]))
              /\ score(task[i].result[1]) = Undefined
        /\ (task[i].result # Undefined /\ runCompleted(task[i].result[1])) =>
              /\ task[i].threw = Undefined
              /\ argv.keepDevbox \/ CallsOf(task[i], "complete") # {}

\* the complete call of task t has returned
TornDown(t) ==
    /\ t.pc = "resolved"
    /\ t.threw = Undefined
    /\ CallsOf(t, "complete") # {}

\* the tasks that have asked for a devbox and whose run is not completed
LiveEnvironments ==
    {i \in 1..Len(task) :
        /\ CallsOf(task[i], "startRunAndAwaitEnvReady") # {}
        /\ ~TornDown(task[i])}

\* C19: the devbox not being kept and no call having failed, at most
\* min(K, N) devboxes of a benchmark run are started and not yet completed
\* at any instant, and none when the run has returned; and a task whose
\* outcome is a success, the devbox not being kept, had its complete call
\* return before it had an outcome.
C19_EnvironmentAccounting ==
    /\ (~argv.keepDevbox /\ Failed = {}) =>
          /\ Truthy(argv.benchmarkId) =>
                Cardinality(LiveEnvironments) <= Min(maxConcurrency, N)
          /\ pc = "done" => LiveEnvironments = {}
    /\ ~argv.keepDevbox =>
          \A i \in 1..Len(task) :
              (task[i].result # Undefined /\ runCompleted(task[i].result[1]))
                 => TornDown(task[i])

\* a full batch with a devbox asked for by each of its tasks, after an
\* earlier batch whose devboxes are gone
C19_Witness ==
    /\ ~argv.keepDevbox
    /\ Failed = {}
    /\ pc = "batch"
    /\ maxConcurrency = 1
    /\ batchNo = MaxN
    /\ Cardinality(LiveEnvironments) = 1
    /\ \A i \in 1..MaxN - 1 : TornDown(task[i])

\* a full batch of MaxK tasks, each holding a devbox
C19_WitnessFull ==
    /\ ~argv.keepDevbox
    /\ Failed = {}
    /\ pc = "batch"
    /\ maxConcurrency = MaxK
    /\ Cardinality(LiveEnvironments) = MaxK

====
